---- MODULE Spec2Model ----
(***************************************************************************)
(* The /chat endpoint of main.py: one process-wide LLMChain whose          *)
(* ConversationBufferMemory holds the conversation log, a handler that     *)
(* forwards the user's text to the chat-completion provider and clears the *)
(* memory when "bye" shows up in the lowercased input or in the response.  *)
(*                                                                         *)
(* Text is a sequence of one-character strings, so that str.lower() and    *)
(* the `in` substring test are computed rather than assumed.               *)
(***************************************************************************)
EXTENDS Integers, Sequences, FiniteSets, TLC

\* ------------------------------------------------------------- bounds
\* Requests issued in one behaviour, over all clients.
MaxRequests == 3
\* HTTP clients that may have a request pending at the same time.
NumClients == 2

Clients == 1..NumClients

\* ------------------------------------------------------------- text
UpperToLower ==
    ("A" :> "a") @@ ("B" :> "b") @@ ("C" :> "c") @@ ("D" :> "d") @@ ("E" :> "e") @@
    ("F" :> "f") @@ ("G" :> "g") @@ ("H" :> "h") @@ ("I" :> "i") @@ ("J" :> "j") @@
    ("K" :> "k") @@ ("L" :> "l") @@ ("M" :> "m") @@ ("N" :> "n") @@ ("O" :> "o") @@
    ("P" :> "p") @@ ("Q" :> "q") @@ ("R" :> "r") @@ ("S" :> "s") @@ ("T" :> "t") @@
    ("U" :> "u") @@ ("V" :> "v") @@ ("W" :> "w") @@ ("X" :> "x") @@ ("Y" :> "y") @@
    ("Z" :> "z")

LowerChar(ch) == IF ch \in DOMAIN UpperToLower THEN UpperToLower[ch] ELSE ch

\* str.lower()
Lower(s) == [i \in 1..Len(s) |-> LowerChar(s[i])]

\* `pat in s` on Python strings: pat occurs as a contiguous substring of s.
Contains(s, pat) ==
    \E i \in 0..(Len(s) - Len(pat)) : SubSeq(s, i + 1, i + Len(pat)) = pat

\* The literal 'bye' of the two `in` tests.
Bye == <<"b", "y", "e">>

\* request.user_input values the clients send: a plain greeting, a near miss
\* of the trigger, the trigger in capitals, the trigger inside a longer word.
UserInputs ==
    { <<"H", "i">>,
      <<"b", "y">>,
      <<"B", "y", "e">>,
      <<"o", "b", "y", "e">> }

\* output['text'] values the provider may generate: no trigger, the trigger
\* capitalised (the response is not lowercased), the trigger inside a word.
Responses ==
    { <<"O", "k">>,
      <<"B", "y", "e">>,
      <<"o", "b", "y", "e">> }

\* str(e) of the exceptions the provider call may raise.
Errors == { <<"t", "i", "m", "e", "d">> }

\* The body Starlette's ServerErrorMiddleware sends for an exception that
\* leaves the handler uncaught: a fixed text, not the exception's message.
InternalServerError == <<"I", "S", "E">>

\* The system message of the prompt template (abridged; it does hold "bye").
SystemInstruction == <<"e", "n", "d", " ", "b", "y", "e">>

SystemMessage(s) == [role |-> "system", content |-> s]
HumanMessage(s) == [role |-> "user", content |-> s]
AIMessage(s) == [role |-> "assistant", content |-> s]

\* ------------------------------------------------------------- state
VARIABLES
    log,         \* memory.chat_memory.messages: the conversation log
    pc,          \* per client: where its request is
    req,         \* per client: request.user_input
    running,     \* the clients whose handler coroutine has started and not ended
    user_input,  \* handler local: the lowercased copy
    hist,        \* invoke: the chat_history loaded from memory
    sent,        \* invoke: the message list given to the provider
    calls,       \* per client: provider calls made for the current request
    output,      \* handler local: output['text']
    failed,      \* per client: the provider call raised
    exc,         \* per client: str(e) of the raised exception
    reply,       \* per client: the HTTP response
    preLog,      \* history: the log when the handler started
    issued,      \* history: requests sent so far
    completed,   \* history: requests whose handler has ended
    quietIn,     \* history: every ended request succeeded with a non-trigger input
    quietOut,    \* history: and no response of theirs held the trigger
    expected,    \* history: the turns of the ended requests, in order
    everReset    \* history: memory.clear() has run

vars == << log, pc, req, running, user_input, hist, sent, calls, output, failed,
           exc, reply, preLog, issued, completed, quietIn, quietOut, expected,
           everReset >>

locals == << user_input, hist, sent, calls, output, failed, exc, reply, preLog >>
history == << completed, quietIn, quietOut, expected, everReset >>

NoReply == [kind |-> "none", status |-> 0, body |-> <<>>]

Turns == [role : {"user", "assistant"}, content : UserInputs \cup Responses]
Replies == [kind : {"none", "ok", "http_exception", "unhandled"},
            status : {0, 200, 500},
            body : {<<>>, InternalServerError} \cup Responses \cup Errors]

\* The shape of the state.
TypeOK ==
    /\ log \in Seq(Turns)
    /\ pc \in [Clients -> {"idle", "sent", "lower", "load", "call", "save", "clear",
                           "return", "done"}]
    /\ req \in [Clients -> UserInputs \cup {<<>>}]
    /\ running \subseteq Clients
    /\ \A c \in Clients : user_input[c] = <<>> \/ user_input[c] = Lower(req[c])
    /\ \A c \in Clients : hist[c] \in Seq(Turns)
    /\ \A c \in Clients : sent[c] = <<>> \/ sent[c][1].role = "system"
    /\ calls \in [Clients -> 0..1]
    /\ output \in [Clients -> Responses \cup {<<>>}]
    /\ failed \in [Clients -> BOOLEAN]
    /\ exc \in [Clients -> Errors \cup {<<>>}]
    /\ reply \in [Clients -> Replies]
    /\ \A c \in Clients : preLog[c] \in Seq(Turns)
    /\ issued \in 0..MaxRequests
    /\ completed \in 0..issued
    /\ quietIn \in BOOLEAN /\ quietOut \in BOOLEAN /\ (quietOut => quietIn)
    /\ expected \in Seq(Turns)
    /\ everReset \in BOOLEAN

\* ------------------------------------------------------------- pure parts
\* 'bye' in user_input
InputTriggers(lowered) == Contains(lowered, Bye)

\* Variant: the response is lowercased before the test, as the input is.
ResponseTriggers_Lowered(text) == Contains(Lower(text), Bye)

\* 'bye' in output['text']
ResponseTriggers(text) == Contains(text, Bye)

\* Variant: the lowercased copy is what goes to the chain.
Question_Lowered(c) == Lower(req[c])

\* The {"question": ...} handed to conversation.invoke: the raw request text.
Question(c) == req[c]

\* Variant: the human message is placed ahead of the placeholder.
FormatMessages_QuestionFirst(chat_history, question) ==
    <<SystemMessage(SystemInstruction), HumanMessage(question)>> \o chat_history

\* ChatPromptTemplate: system message, MessagesPlaceholder, human message.
FormatMessages(chat_history, question) ==
    <<SystemMessage(SystemInstruction)>> \o chat_history \o <<HumanMessage(question)>>

\* Variant: the two turns are stored in the wrong order.
SaveContext_Swapped(messages, question, text) ==
    messages \o <<AIMessage(text), HumanMessage(question)>>

\* memory.save_context, run by invoke after the provider returned.
SaveContext(messages, question, text) ==
    messages \o <<HumanMessage(question), AIMessage(text)>>

\* Variant: only the last exchange is dropped.
Clear_DropsLastExchange(messages) ==
    IF Len(messages) <= 2 THEN <<>> ELSE SubSeq(messages, 1, Len(messages) - 2)

\* conversation.memory.clear()
Clear(messages) == <<>>

\* Variant: a plain `def` endpoint, which FastAPI runs in a thread pool, so a
\* handler starts whatever the others are doing.
CanDispatch_ThreadPool(c) == TRUE

\* An async def endpoint runs on the event loop; chat holds no await, so the
\* loop starts the next handler only when none is running.
CanDispatch(c) == running = {}

\* Variant: the input-trigger branch forgets to clear.
NextAfterInvoke_NoInputClear(lowered, text) ==
    IF ResponseTriggers(text) THEN "clear" ELSE "return"

\* Variant: the response is never tested for the trigger.
NextAfterInvoke_NoResponseTest(lowered, text) ==
    IF InputTriggers(lowered) THEN "clear" ELSE "return"

\* Where the handler goes once invoke returned: the input-trigger branch
\* clears unconditionally, the other one when the response holds the trigger.
NextAfterInvoke(lowered, text) ==
    IF InputTriggers(lowered) THEN "clear"
    ELSE IF ResponseTriggers(text) THEN "clear"
    ELSE "return"

\* Variant: the memory is cleared on the way out of a failed call.
NextAfterError_Clears(lowered) == "clear"

\* Where the handler goes when invoke raised: out of the function on both
\* branches (uncaught on the first, re-raised as HTTPException on the second).
NextAfterError(lowered) == "return"

\* What the caller gets for a raised provider call.
ErrorReply(lowered, e) ==
    IF InputTriggers(lowered)
    THEN [kind |-> "unhandled", status |-> 500, body |-> InternalServerError]
    ELSE [kind |-> "http_exception", status |-> 500, body |-> e]

\* return {"response": output["text"]}
OkReply(text) == [kind |-> "ok", status |-> 200, body |-> text]

\* ------------------------------------------------------------- Init
Init ==
    /\ log = <<>>
    /\ pc = [c \in Clients |-> "idle"]
    /\ req = [c \in Clients |-> <<>>]
    /\ running = {}
    /\ user_input = [c \in Clients |-> <<>>]
    /\ hist = [c \in Clients |-> <<>>]
    /\ sent = [c \in Clients |-> <<>>]
    /\ calls = [c \in Clients |-> 0]
    /\ output = [c \in Clients |-> <<>>]
    /\ failed = [c \in Clients |-> FALSE]
    /\ exc = [c \in Clients |-> <<>>]
    /\ reply = [c \in Clients |-> NoReply]
    /\ preLog = [c \in Clients |-> <<>>]
    /\ issued = 0
    /\ completed = 0
    /\ quietIn = TRUE
    /\ quietOut = TRUE
    /\ expected = <<>>
    /\ everReset = FALSE

\* ------------------------------------------------------------- actions
\* A client posts {"user_input": s} to /chat.
Send(c, s) ==
    /\ pc[c] = "idle"
    /\ issued < MaxRequests
    /\ req' = [req EXCEPT ![c] = s]
    /\ pc' = [pc EXCEPT ![c] = "sent"]
    /\ issued' = issued + 1
    /\ UNCHANGED << log, running, locals, history >>

\* The event loop starts chat(request).
Dispatch(c) ==
    /\ pc[c] = "sent"
    /\ CanDispatch(c)
    /\ running' = running \cup {c}
    /\ preLog' = [preLog EXCEPT ![c] = log]
    /\ pc' = [pc EXCEPT ![c] = "lower"]
    /\ UNCHANGED << log, req, user_input, hist, sent, calls, output, failed, exc,
                    reply, issued, history >>

\* user_input = request.user_input.lower()
LowerInput(c) ==
    /\ pc[c] = "lower"
    /\ c \in running
    /\ user_input' = [user_input EXCEPT ![c] = Lower(req[c])]
    /\ pc' = [pc EXCEPT ![c] = "load"]
    /\ UNCHANGED << log, req, running, hist, sent, calls, output, failed, exc,
                    reply, preLog, issued, history >>

\* conversation.invoke, first part: load chat_history from memory and format
\* the prompt.
LoadMemory(c) ==
    /\ pc[c] = "load"
    /\ c \in running
    /\ hist' = [hist EXCEPT ![c] = log]
    /\ sent' = [sent EXCEPT ![c] = FormatMessages(log, Question(c))]
    /\ pc' = [pc EXCEPT ![c] = "call"]
    /\ UNCHANGED << log, req, running, user_input, calls, output, failed, exc,
                    reply, preLog, issued, history >>

\* conversation.invoke, the provider call returns text.
ProviderReturns(c, text) ==
    /\ pc[c] = "call"
    /\ c \in running
    /\ calls' = [calls EXCEPT ![c] = @ + 1]
    /\ output' = [output EXCEPT ![c] = text]
    /\ pc' = [pc EXCEPT ![c] = "save"]
    /\ UNCHANGED << log, req, running, user_input, hist, sent, failed, exc,
                    reply, preLog, issued, history >>

\* conversation.invoke, the provider call raises: invoke re-raises before
\* save_context.
ProviderRaises(c, e) ==
    /\ pc[c] = "call"
    /\ c \in running
    /\ calls' = [calls EXCEPT ![c] = @ + 1]
    /\ failed' = [failed EXCEPT ![c] = TRUE]
    /\ exc' = [exc EXCEPT ![c] = e]
    /\ pc' = [pc EXCEPT ![c] = NextAfterError(user_input[c])]
    /\ UNCHANGED << log, req, running, user_input, hist, sent, output,
                    reply, preLog, issued, history >>

\* conversation.invoke, last part: save_context appends the two turns; then
\* the handler's test for the trigger.
SaveTurns(c) ==
    /\ pc[c] = "save"
    /\ c \in running
    /\ log' = SaveContext(log, Question(c), output[c])
    /\ pc' = [pc EXCEPT ![c] = NextAfterInvoke(user_input[c], output[c])]
    /\ UNCHANGED << req, running, locals, issued, history >>

\* conversation.memory.clear()
ClearMemory(c) ==
    /\ pc[c] = "clear"
    /\ c \in running
    /\ log' = Clear(log)
    /\ everReset' = TRUE
    /\ pc' = [pc EXCEPT ![c] = "return"]
    /\ UNCHANGED << req, running, locals, issued, completed, quietIn, quietOut,
                    expected >>

\* The handler ends: `return {"response": ...}`, or the exception leaves it.
Return(c) ==
    /\ pc[c] = "return"
    /\ c \in running
    /\ reply' = [reply EXCEPT ![c] =
                    IF failed[c] THEN ErrorReply(user_input[c], exc[c])
                    ELSE OkReply(output[c])]
    /\ running' = running \ {c}
    /\ pc' = [pc EXCEPT ![c] = "done"]
    /\ completed' = completed + 1
    /\ quietIn' = (quietIn /\ ~failed[c] /\ ~Contains(Lower(req[c]), Bye))
    /\ quietOut' = (quietOut /\ ~failed[c] /\ ~Contains(Lower(req[c]), Bye)
                             /\ ~Contains(output[c], Bye))
    /\ expected' = IF quietIn'
                   THEN expected \o <<HumanMessage(req[c]), AIMessage(output[c])>>
                   ELSE <<>>
    /\ UNCHANGED << log, req, user_input, hist, sent, calls, output, failed, exc,
                    preLog, issued, everReset >>

\* The client reads the response; its next request starts afresh.
Receive(c) ==
    /\ pc[c] = "done"
    /\ pc' = [pc EXCEPT ![c] = "idle"]
    /\ req' = [req EXCEPT ![c] = <<>>]
    /\ user_input' = [user_input EXCEPT ![c] = <<>>]
    /\ hist' = [hist EXCEPT ![c] = <<>>]
    /\ sent' = [sent EXCEPT ![c] = <<>>]
    /\ calls' = [calls EXCEPT ![c] = 0]
    /\ output' = [output EXCEPT ![c] = <<>>]
    /\ failed' = [failed EXCEPT ![c] = FALSE]
    /\ exc' = [exc EXCEPT ![c] = <<>>]
    /\ reply' = [reply EXCEPT ![c] = NoReply]
    /\ preLog' = [preLog EXCEPT ![c] = <<>>]
    /\ UNCHANGED << log, running, issued, history >>

Next ==
    \E c \in Clients :
        \/ \E s \in UserInputs : Send(c, s)
        \/ Dispatch(c)
        \/ LowerInput(c)
        \/ LoadMemory(c)
        \/ \E text \in Responses : ProviderReturns(c, text)
        \/ \E e \in Errors : ProviderRaises(c, e)
        \/ SaveTurns(c)
        \/ ClearMemory(c)
        \/ Return(c)
        \/ Receive(c)

Spec == Init /\ [][Next]_vars

\* ------------------------------------------------------------- properties
Triggered(c) == Contains(Lower(req[c]), Bye)
OwnTurns(c) == <<HumanMessage(req[c]), AIMessage(output[c])>>
Phase(messages) == IF messages = <<>> THEN "RESET" ELSE "ACTIVE"
Alternates(messages) ==
    /\ Len(messages) % 2 = 0
    /\ \A i \in DOMAIN messages :
          messages[i].role = (IF i % 2 = 1 THEN "user" ELSE "assistant")

\* C1 as stated: from the empty log, after N ended requests that all succeeded
\* and whose inputs did not hold "bye", the log holds exactly the 2N turns of
\* those requests in order and no reset has happened (nothing is required of
\* the responses).
C1_Original ==
    (running = {} /\ quietIn) =>
        /\ Len(log) = 2 * completed
        /\ log = expected
        /\ ~everReset

\* C1 amended: the same, when in addition no response of those requests held
\* "bye".
C1_NonTriggeringTurns ==
    (running = {} /\ quietOut) =>
        /\ Len(log) = 2 * completed
        /\ log = expected
        /\ ~everReset

C1_Witness == running = {} /\ quietOut /\ completed = 2 /\ Len(log) = 4

\* C2 as stated: for an input that holds "bye" (case-insensitively) exactly one
\* provider call is made, with the whole pre-reset history, its response is
\* returned to the caller and the log is empty when the request completes.
C2_Original ==
    \A c \in Clients :
        /\ (pc[c] = "return" /\ Triggered(c)) =>
              /\ calls[c] = 1
              /\ sent[c] = <<SystemMessage(SystemInstruction)>> \o preLog[c]
                              \o <<HumanMessage(req[c])>>
              /\ ~failed[c]
              /\ log = <<>>
        /\ (pc[c] = "done" /\ Triggered(c)) =>
              /\ calls[c] = 1
              /\ reply[c] = [kind |-> "ok", status |-> 200, body |-> output[c]]

\* C2 amended: for such an input exactly one provider call is made, with the
\* whole pre-reset history; when that call succeeds its response is returned
\* and the log is empty when the request completes; when it fails no response
\* text is returned and the log is what it was before the request.
C2_InputTriggerStillCalls ==
    \A c \in Clients :
        /\ (pc[c] = "return" /\ Triggered(c)) =>
              /\ calls[c] = 1
              /\ sent[c] = <<SystemMessage(SystemInstruction)>> \o preLog[c]
                              \o <<HumanMessage(req[c])>>
              /\ (~failed[c] => log = <<>>)
              /\ (failed[c] => log = preLog[c])
        /\ (pc[c] = "done" /\ Triggered(c)) =>
              /\ calls[c] = 1
              /\ (~failed[c] =>
                    reply[c] = [kind |-> "ok", status |-> 200, body |-> output[c]])
              /\ (failed[c] => reply[c].kind # "ok")

C2_Witness ==
    \E c \in Clients :
        /\ pc[c] = "return" /\ Triggered(c) /\ ~failed[c]
        /\ Len(preLog[c]) >= 2 /\ log = <<>>

\* C3: when a request has succeeded, the log is empty exactly if "bye" is a
\* substring of the lowercased input or of the response text as the provider
\* returned it; otherwise the log is the earlier log plus the request's two turns.
C3_ResetIffTrigger ==
    \A c \in Clients :
        (pc[c] = "return" /\ ~failed[c]) =>
            /\ (log = <<>>) <=> (Contains(Lower(req[c]), Bye) \/ Contains(output[c], Bye))
            /\ ~(Contains(Lower(req[c]), Bye) \/ Contains(output[c], Bye)) =>
                  log = preLog[c] \o OwnTurns(c)

C3_Witness ==
    \E c \in Clients :
        /\ pc[c] = "return" /\ ~failed[c]
        /\ req[c] = <<"o", "b", "y", "e">>
        /\ preLog[c] # <<>> /\ log = <<>>

\* C4: when the provider call of a request has failed, the log is what it was
\* before the request, whether or not the input holds the trigger.
C4_FailureLeavesLog ==
    \A c \in Clients :
        (pc[c] = "return" /\ failed[c]) => log = preLog[c]

C4_Witness ==
    \E c \in Clients :
        pc[c] = "return" /\ failed[c] /\ Triggered(c) /\ preLog[c] # <<>>

\* C5: for every input, a failed provider call is caught by the handler and
\* answered with an HTTP 500 whose detail is the error's message, after exactly
\* one provider call.
C5_FailureIsHttp500 ==
    \A c \in Clients :
        (pc[c] = "done" /\ failed[c]) =>
            /\ reply[c] = [kind |-> "http_exception", status |-> 500, body |-> exc[c]]
            /\ calls[c] = 1

\* C6: the message list given to the provider is the system instruction, then
\* the turns of the log as it was when the request arrived, then the new user
\* message; the log holds no system turn, and assembling leaves the log alone.
C6_PromptAssembly ==
    /\ \A i \in DOMAIN log : log[i].role # "system"
    /\ \A c \in Clients :
          (pc[c] \in {"call", "save"}) =>
              /\ sent[c] = <<SystemMessage(SystemInstruction)>> \o preLog[c]
                              \o <<HumanMessage(req[c])>>
              /\ log = preLog[c]

C6_Witness ==
    \E c \in Clients : pc[c] = "call" /\ Len(preLog[c]) >= 2

\* C7: the log starts empty (RESET); a step that appends leaves it non-empty
\* (ACTIVE); a clear leaves it empty whatever its length was, and clearing the
\* cleared log changes nothing; the log goes from non-empty to empty only by the
\* clear of a request whose input or response held the trigger.
C7_StateMachine ==
    /\ Phase(log) = "RESET"
    /\ [][ /\ (Len(log') > Len(log)) => Phase(log') = "ACTIVE"
           /\ (\E c \in Clients : pc[c] = "clear" /\ pc'[c] # "clear") =>
                 /\ Len(log') = 0
                 /\ Clear(log') = log'
           /\ (Phase(log) = "ACTIVE" /\ Phase(log') = "RESET") =>
                 \E c \in Clients :
                    /\ pc[c] = "clear" /\ pc'[c] = "return"
                    /\ ~failed[c]
                    /\ (Contains(Lower(req[c]), Bye) \/ Contains(output[c], Bye))
         ]_vars

C7_Witness ==
    everReset /\ log = <<>> /\ \E c \in Clients : pc[c] = "return" /\ Len(preLog[c]) >= 2

\* C8 as stated, in the form a state can refute: nothing excludes a second
\* handler while one is between reading the log and writing it, i.e. a pending
\* request's handler can start then.
C8_Original ==
    \A c, d \in Clients :
        (c # d /\ pc[c] \in {"call", "save", "clear"} /\ pc[d] = "sent") =>
            ENABLED Dispatch(d)

\* C8 amended: requests pending at the same time do not interleave. At most one
\* handler runs; the log it appends to is the one its prompt was built from; a
\* clear removes only that history and the request's own two turns; and the log
\* is always a sequence of user/assistant pairs.
C8_Serialized ==
    /\ Cardinality(running) <= 1
    /\ Alternates(log)
    /\ \A c \in Clients :
          /\ (pc[c] \in {"call", "save"}) => log = hist[c]
          /\ (pc[c] = "clear") => log = hist[c] \o OwnTurns(c)
          /\ (pc[c] = "return" /\ ~failed[c]) =>
                log \in { <<>>, hist[c] \o OwnTurns(c) }

C8_Witness ==
    \E c, d \in Clients : c # d /\ pc[c] = "call" /\ pc[d] = "sent" /\ log # <<>>

\* C9: the provider gets the raw input as the new user message, the stored user
\* turn is the raw input, the stored assistant turn and the returned response
\* are the provider's text, on both branches of the handler.
C9_RawText ==
    \A c \in Clients :
        /\ (pc[c] \in {"call", "save", "clear", "return", "done"}) =>
              sent[c][Len(sent[c])] = HumanMessage(req[c])
        /\ (pc[c] \in {"clear", "return"} /\ ~failed[c] /\ log # <<>>) =>
              /\ log[Len(log) - 1] = HumanMessage(req[c])
              /\ log[Len(log)] = AIMessage(output[c])
        /\ (pc[c] = "done" /\ ~failed[c]) =>
              reply[c].body = output[c]

C9_Witness ==
    \E c \in Clients :
        /\ pc[c] = "clear" /\ req[c] = <<"B", "y", "e">>
        /\ user_input[c] # req[c]

\* C10: between requests the log has even length, alternates user and assistant
\* turns, and holds no user turn whose lowercased text contains "bye" and no
\* assistant turn whose text contains "bye".
C10_NoTriggerSurvives ==
    (running = {}) =>
        /\ Alternates(log)
        /\ \A i \in DOMAIN log :
              /\ (log[i].role = "user") => ~Contains(Lower(log[i].content), Bye)
              /\ (log[i].role = "assistant") => ~Contains(log[i].content, Bye)

C10_Witness ==
    /\ running = {} /\ everReset /\ Len(log) >= 2
    /\ \E i \in DOMAIN log : log[i].content = <<"B", "y", "e">>

====
